---- MODULE Spec2Model ----
(***************************************************************************)
(* Model of the multi-endpoint connection manager of the gas tracker      *)
(* (src/src/services/web3Service.ts), of the part of the zustand store it *)
(* writes (src/src/store/gasStore.ts) and of the standalone endpoint      *)
(* probe (RpcDebugger.testRpcEndpoint, src/unnamed/part_005).             *)
(*                                                                         *)
(* JavaScript runs one callback at a time, so an action is one run of a   *)
(* callback from the point it is resumed to its next await: the answer of *)
(* a probe, the firing of a timer, the completion of a poll, a tick of    *)
(* the simulation. The endpoints are the environment: what they answer,   *)
(* and when, is chosen nondeterministically. Time is not measured: a      *)
(* timer may fire at any moment after it was set, and it carries the      *)
(* delay it was set with.                                                  *)
(***************************************************************************)
EXTENDS Integers, Sequences, FiniteSets, TLC

VARIABLES
    providers,      \* Web3Service.providers: chain -> [url, loop] of the provider, NoProvider = no entry
    isConnected,    \* Web3Service.isConnected: chain -> "undefined" | "true" | "false"
    timers,         \* pending reconnect timers (setTimeout) per chain and kind
    trav,           \* running connectToChain calls per chain, each awaiting the probe of candidate i
    abandoned,      \* chain -> a getBlockNumber request that lost its race to the timeout is in flight
    loops,          \* startBlockMonitoring closures per chain, in order of creation
    storeConn,      \* store.chains[c].isConnected
    reading,        \* source of the reading store.chains[c] holds: who called updateGas last
    storeError,     \* store.error
    isLoading,      \* store.isLoading
    initResult,     \* initializeConnections: result of each connectionPromise
    tornDown,       \* disconnect() has been called
    stable,         \* environment: chain -> candidate that answers every probe from now on, 0 = none
    pollErrors,     \* polls that have failed so far
    rejected,       \* chain -> some connectToChain call of it ended with an exception
    dbg,            \* result of the last RpcDebugger.testRpcEndpoint call
    exhausted,      \* observer: the network whose connection attempt ran out of candidates on a
                    \* timeout since the last simulation tick, "none", or "off" (not observed)
    gasFees,        \* store.chains[c].baseFee and .priorityFee
    lastUpdate,     \* observer: the last call of store.updateGas, its caller and its arguments
    simulated,      \* the fees the last run of simulateGasPrices computed, per network
    history,        \* store.chains[c].history
    now,            \* Date.now(), in minutes
    usdPrice,       \* store.usdPrice
    simulationInput,    \* store.simulationInput.amount, the text of the input field
    simulationResults,  \* store.simulationResults
    web3Service     \* the module's singleton: whether it is set, constructor runs, calls so far

\* the values of the store and the singleton, which the connection manager's steps leave alone
storeValues == <<simulated, history, now, usdPrice, simulationInput, simulationResults,
                 web3Service>>

vars == <<providers, isConnected, timers, trav, abandoned, loops, storeConn, reading,
          storeError, isLoading, initResult, tornDown, stable, pollErrors, rejected, dbg,
          exhausted, gasFees, lastUpdate, storeValues>>

(***************************************************************************)
(* Bounds of the model.                                                    *)
(***************************************************************************)
\* candidates per network: [rpcUrl, ...fallbackUrls] (6 in CHAIN_CONFIGS)
NumUrls == 2
\* monitoring loops ever started, all networks together
MaxLoops == 2
\* polls that fail, all networks together
MaxPollErrors == 4
\* requests one interval has in flight at a time, where requests are tracked
MaxInflight == 2

(***************************************************************************)
(* Program constants.                                                      *)
(***************************************************************************)
maxConsecutiveErrors == 3
RetryDelayMs == 30000
ReconnectDelayMs == 10000
\* the documented retry interval
BackoffMs == 30000

\* consecutiveErrors is counted up to the threshold and stays there: the code only asks
\* whether it is >= maxConsecutiveErrors
ErrCap == maxConsecutiveErrors

\* keys of CHAIN_CONFIGS (arbitrum, the third, is handled as polygon is)
Chains == {"ethereum", "polygon"}

Urls == 1..NumUrls

\* urlsToTry = [config.rpcUrl, ...config.fallbackUrls]
urlsToTry == [i \in Urls |-> i]

Min(a, b) == IF a < b THEN a ELSE b

Max(a, b) == IF a > b THEN a ELSE b

RECURSIVE SumOver(_, _)
SumOver(S, f) == IF S = {} THEN 0 ELSE LET x == CHOOSE y \in S : TRUE
                                       IN f[x] + SumOver(S \ {x}, f)

RemoveAt(s, k) == [j \in 1..(Len(s) - 1) |-> IF j < k THEN s[j] ELSE s[j + 1]]

\* what getBlockNumber can resolve to: a JavaScript value with its type
BlockNumbers ==
    { [t |-> "number", v |-> 19], [t |-> "number", v |-> 0], [t |-> "number", v |-> -1],
      [t |-> "NaN", v |-> 0], [t |-> "string", v |-> 0] }

\* a block number every check accepts
GoodBlockNumber == [t |-> "number", v |-> 19]

\* typeof x: NaN is of type number
TypeOf(x) == IF x.t \in {"number", "NaN"} THEN "number" ELSE x.t

\* x <= 0 of JavaScript: every comparison with NaN is false
LeqZero(x) == x.t = "number" /\ x.v <= 0

\* a height that is a positive number
IsPositiveNumber(x) == x.t = "number" /\ x.v > 0

TimerKinds == {"retry", "retryLost", "reconnect"}

\* the delay each kind of reconnect timer is set with (lines 162 and 235)
TimerDelay(kind) == IF kind = "reconnect" THEN ReconnectDelayMs ELSE RetryDelayMs

NoTimers == [k \in TimerKinds |-> 0]

\* providers.get(chainKey) === undefined
NoProvider == [url |-> 0, loop |-> 0]

\* monitoring loops started so far
TotalLoops == SumOver(Chains, [c \in Chains |-> Len(loops[c])])

\* reconnect timers pending for chain c
PendingTimers(c) == SumOver(TimerKinds, timers[c])

(***************************************************************************)
(* The store (gasStore.ts), as far as the service writes it.              *)
(***************************************************************************)
\* variant of updateGas: the reading of every chain is replaced
updateGasAll(rd, c, src) == [d \in DOMAIN rd |-> src]

\* store.updateGas(chain, ...): the chain's reading is replaced; src is who called
updateGas(rd, c, src) == [rd EXCEPT ![c] = src]

\* store.setConnectionStatus(chain, connected)
setConnectionStatus(sc, c, connected) == [sc EXCEPT ![c] = connected]

(***************************************************************************)
(* initializeConnections: the part after Promise.all (lines 87-103).       *)
(***************************************************************************)
\* the message set when results.filter(r => r.success) is empty
NoConnectionsNotice == "No blockchain connections available. Using simulated data."

\* store.error after the results are in: err is store.error before
ErrorAfterInit(results, err) ==
    IF \A c \in Chains : results[c] # "success" THEN NoConnectionsNotice ELSE err

\* the wrapper of lines 76-84: success: true when connectToChain returned
WrapperResult(outcome) == IF outcome = "returned" THEN "success" ELSE "failure"

\* variant of LoadingAfterInit: the flag is never set back
LoadingKept(done, loading) == loading

\* line 103: store.setLoading(false) once every connectionPromise has settled
LoadingAfterInit(done, loading) == IF done THEN FALSE ELSE loading

\* The call k of connectToChain(c) ends with outcome "returned" or "threw". When it is
\* the call initializeConnections awaits, its result is recorded, and when it is the last
\* of them lines 89-103 run; err is store.error as the call leaves it.
EndTraversal(c, k, outcome, err) ==
    /\ trav' = [trav EXCEPT ![c] = RemoveAt(trav[c], k)]
    /\ rejected' = [rejected EXCEPT ![c] = rejected[c] \/ outcome = "threw"]
    /\ IF trav[c][k].init
         THEN LET results == [initResult EXCEPT ![c] = WrapperResult(outcome)]
                  done == \A d \in Chains : results[d] # "pending"
              IN /\ initResult' = results
                 /\ isLoading' = LoadingAfterInit(done, isLoading)
                 /\ storeError' = IF done THEN ErrorAfterInit(results, err) ELSE err
         ELSE /\ storeError' = err
              /\ UNCHANGED <<initResult, isLoading>>

(***************************************************************************)
(* connectToChain (lines 106-169).                                         *)
(***************************************************************************)
\* line 132 negated: the block number is accepted
IsValidBlockNumber(x) == ~(TypeOf(x) # "number" \/ LeqZero(x))

\* variant of Caught: a catch that handles timeouts only
CaughtTimeoutsOnly(why) == why = "timeout"

\* line 147: catch (error) has no filter, every failure of the try block lands in it
Caught(why) == TRUE

\* variant of NextUrl: a loop that goes back to the first candidate
NextUrlRestarts(i) == 1

\* line 110: i++
NextUrl(i) == i + 1

\* line 152: i === urlsToTry.length - 1
IsLastUrl(i) == i = NumUrls

\* lines 159-164: a new retry timer; the handle the map held under chainKey is overwritten
ScheduleRetry(tm) ==
    [tm EXCEPT !["retry"] = 1, !["retryLost"] = tm["retryLost"] + tm["retry"]]

\* lines 136-145: the probe of candidate i answered with an accepted block number. The
\* call of startBlockMonitoring runs up to its first await: the loop exists, its initial
\* poll is in flight.
ConnectSucceeded(c, k) ==
    LET i == trav[c][k].i
        loop == [errs |-> 0, interval |-> "none", stored |-> FALSE, inflight |-> 0]
    IN /\ TotalLoops < MaxLoops
       /\ loops' = [loops EXCEPT ![c] = Append(loops[c], loop)]
       /\ providers' = [providers EXCEPT
                          ![c] = [url |-> urlsToTry[i], loop |-> Len(loops[c]) + 1]]
       /\ isConnected' = [isConnected EXCEPT ![c] = "true"]
       /\ storeConn' = setConnectionStatus(storeConn, c, TRUE)
       /\ EndTraversal(c, k, "returned", "null")
       /\ UNCHANGED <<timers, reading>>

\* lines 147-167: the probe of candidate i failed (why: timeout, invalid, transport)
ConnectFailed(c, k, why) ==
    LET i == trav[c][k].i IN
    IF ~Caught(why)
      THEN /\ EndTraversal(c, k, "threw", storeError)
           /\ UNCHANGED <<providers, isConnected, timers, loops, storeConn, reading>>
      ELSE IF IsLastUrl(i)
        THEN /\ isConnected' = [isConnected EXCEPT ![c] = "false"]
             /\ storeConn' = setConnectionStatus(storeConn, c, FALSE)
             /\ timers' = [timers EXCEPT ![c] = ScheduleRetry(timers[c])]
             /\ EndTraversal(c, k, "returned", storeError)
             /\ UNCHANGED <<providers, loops, reading>>
        ELSE /\ trav' = [trav EXCEPT ![c][k].i = NextUrl(i)]
             /\ UNCHANGED <<providers, isConnected, timers, loops, storeConn, reading,
                            initResult, isLoading, storeError, rejected>>

\* the candidate the environment has made permanently reachable neither fails nor times out
MayFail(c, k) == stable[c] # urlsToTry[trav[c][k].i]

\* lines 127-134: provider.getBlockNumber() wins the race and resolves to x
ProbeAnswered(c, k, x) ==
    /\ IF IsValidBlockNumber(x)
         THEN ConnectSucceeded(c, k)
         ELSE /\ MayFail(c, k)
              /\ ConnectFailed(c, k, "invalid")
    /\ UNCHANGED <<abandoned, tornDown, stable, pollErrors, dbg, exhausted,
                   gasFees, lastUpdate, storeValues>>

\* lines 127-130: provider.getBlockNumber() wins the race and rejects
ProbeRejected(c, k) ==
    /\ MayFail(c, k)
    /\ ConnectFailed(c, k, "transport")
    /\ UNCHANGED <<abandoned, tornDown, stable, pollErrors, dbg, exhausted,
                   gasFees, lastUpdate, storeValues>>

\* lines 123-130: the timeout wins the race; the request stays in flight, unobserved
ProbeTimedOut(c, k) ==
    /\ MayFail(c, k)
    /\ ConnectFailed(c, k, "timeout")
    /\ abandoned' = [abandoned EXCEPT ![c] = TRUE]
    /\ exhausted' = IF exhausted # "off" /\ IsLastUrl(trav[c][k].i) THEN c ELSE exhausted
    /\ UNCHANGED <<tornDown, stable, pollErrors, dbg, gasFees, lastUpdate, storeValues>>

\* variant of AbandonedSettles: the late answer is taken for a successful probe
AbandonedConnects(c) ==
    /\ isConnected' = [isConnected EXCEPT ![c] = "true"]
    /\ storeConn' = setConnectionStatus(storeConn, c, TRUE)
    /\ UNCHANGED <<providers, timers, trav, loops, reading, storeError, isLoading,
                   initResult, rejected>>

\* lines 127-130: what the service does when a request whose race is over settles:
\* Promise.race has settled already and nothing else awaits the request
AbandonedSettles(c) ==
    UNCHANGED <<providers, isConnected, timers, trav, loops, storeConn, reading,
                storeError, isLoading, initResult, rejected>>

\* an abandoned request of chain c is answered
LateAnswer(c) ==
    /\ abandoned[c]
    /\ abandoned' = [abandoned EXCEPT ![c] = FALSE]
    /\ AbandonedSettles(c)
    /\ UNCHANGED <<tornDown, stable, pollErrors, dbg, exhausted,
                   gasFees, lastUpdate, storeValues>>

\* lines 159-162 and 232-235: a reconnect timer fires and calls connectToChain, which
\* runs up to the await of its first probe
TimerFired(c, kind) ==
    /\ timers[c][kind] > 0
    /\ timers' = [timers EXCEPT ![c][kind] = timers[c][kind] - 1]
    /\ trav' = [trav EXCEPT ![c] = Append(trav[c], [i |-> 1, init |-> FALSE])]
    /\ UNCHANGED <<providers, isConnected, abandoned, loops, storeConn, reading,
                   storeError, isLoading, initResult, tornDown, stable, pollErrors,
                   rejected, dbg, exhausted,
                   gasFees, lastUpdate, storeValues>>

(***************************************************************************)
(* startBlockMonitoring (lines 171-250).                                   *)
(***************************************************************************)
\* variant of CountError: a failure is counted twice
CountErrorTwice(errs) == Min(errs + 2, ErrCap)

\* line 219: consecutiveErrors++
CountError(errs) == Min(errs + 1, ErrCap)

\* line 223: consecutiveErrors >= maxConsecutiveErrors
ThresholdReached(errs) == errs >= maxConsecutiveErrors

\* variant of ScheduleReconnect: no timer is set
ScheduleNothing(tm) == tm

\* lines 232-235: setTimeout(..., 10000); the handle is not kept
ScheduleReconnect(tm) == [tm EXCEPT !["reconnect"] = tm["reconnect"] + 1]

\* lines 243-249: after the initial call the interval is set up and its id stored under
\* `${chainKey}_monitor`, replacing the id stored there before; a poll the interval
\* issued is no longer in flight
AfterPoll(ls, l) ==
    IF ls[l].interval = "none"
      THEN [j \in 1..Len(ls) |->
              IF j = l THEN [ls[j] EXCEPT !.interval = "active", !.stored = TRUE]
                       ELSE [ls[j] EXCEPT !.stored = FALSE]]
      ELSE [ls EXCEPT ![l].inflight = IF @ > 0 THEN @ - 1 ELSE 0]

\* lines 183-209: the loops of a chain after loop l got a block: consecutiveErrors = 0
LoopsAfterBlock(ls, l) == AfterPoll([ls EXCEPT ![l].errs = 0], l)

\* lines 182-183 and 217: the loops of a chain after loop l got null: the body of
\* `if (latestBlock)`, the reset of line 209 included, is skipped
LoopsAfterNull(ls, l) == AfterPoll(ls, l)

\* lines 182-217: getBlock('latest') resolved to a block
PollBlock(c, l) ==
    /\ reading' = updateGas(reading, c, "live")
    /\ loops' = [loops EXCEPT ![c] = LoopsAfterBlock(loops[c], l)]
    /\ IF isConnected[c] # "true"
         THEN /\ isConnected' = [isConnected EXCEPT ![c] = "true"]
              /\ storeConn' = setConnectionStatus(storeConn, c, TRUE)
         ELSE UNCHANGED <<isConnected, storeConn>>
    /\ UNCHANGED <<providers, timers, pollErrors>>

\* lines 182-183: getBlock('latest') resolved to null: the body of the if is skipped
PollNull(c, l) ==
    /\ loops' = [loops EXCEPT ![c] = LoopsAfterNull(loops[c], l)]
    /\ UNCHANGED <<providers, isConnected, timers, storeConn, reading, pollErrors>>

\* lines 218-239: the poll threw
PollError(c, l) ==
    LET errs == CountError(loops[c][l].errs) IN
    /\ pollErrors < MaxPollErrors
    /\ pollErrors' = pollErrors + 1
    /\ loops' = [loops EXCEPT ![c] = AfterPoll([loops[c] EXCEPT ![l].errs = errs], l)]
    /\ IF ThresholdReached(errs)
         THEN /\ isConnected' = [isConnected EXCEPT ![c] = "false"]
              /\ storeConn' = setConnectionStatus(storeConn, c, FALSE)
              /\ providers' = [providers EXCEPT ![c] = NoProvider]
              /\ timers' = [timers EXCEPT ![c] = ScheduleReconnect(timers[c])]
         ELSE UNCHANGED <<providers, isConnected, timers, storeConn>>
    /\ UNCHANGED reading

\* One call of pollLatestBlock by loop l completes: r is what getBlock('latest') did.
\* The call was made by line 243 (interval "none") or by a tick of the interval of line
\* 246, which issues a request whether or not earlier ones have been answered; issuing
\* changes no state of the program, so in Next only the completion is a step. After
\* clearTimeout (interval "cleared") no call is made, and those made before may still
\* complete. NextPolls tracks the requests of an interval (inflight) from PollIssued on.
PollAnswered(c, l, r) ==
    /\ CASE r = "block" -> PollBlock(c, l)
         [] r = "null"  -> PollNull(c, l)
         [] r = "error" -> PollError(c, l)
    /\ UNCHANGED <<trav, abandoned, storeError, isLoading, initResult, tornDown, stable,
                   rejected, dbg, exhausted,
                   gasFees, lastUpdate, storeValues>>

\* line 246: a tick of setInterval(pollLatestBlock, 6000) calls pollLatestBlock, which
\* sends getBlock('latest') (line 182) and awaits it. setInterval does not look at the
\* calls it made before.
PollIssued(c, l) ==
    /\ loops[c][l].interval = "active"
    /\ loops[c][l].inflight < MaxInflight
    /\ loops' = [loops EXCEPT ![c][l].inflight = @ + 1]
    /\ UNCHANGED <<providers, isConnected, timers, trav, abandoned, storeConn, reading,
                   storeError, isLoading, initResult, tornDown, stable, pollErrors,
                   rejected, dbg, exhausted,
                   gasFees, lastUpdate, storeValues>>

\* a request that is in flight completes: the initial call of line 243 or a request a
\* tick of the interval sent
PollCompletes(c, l, r) ==
    /\ loops[c][l].interval = "none" \/ loops[c][l].inflight > 0
    /\ PollAnswered(c, l, r)

(***************************************************************************)
(* startOfflineSimulation (lines 335-391).                                 *)
(***************************************************************************)
\* variant of SimTargets: the simulation writes every chain
SimTargetsAll == Chains

\* lines 363-371: the chains simulateGasPrices calls updateGas for
SimTargets == {c \in Chains : isConnected[c] # "true"}

\* line 390: setInterval(simulateGasPrices, 8000) fires
SimTick ==
    /\ web3Service.set
    /\ reading' = [c \in Chains |-> IF c \in SimTargets THEN "sim" ELSE reading[c]]
    /\ UNCHANGED <<providers, isConnected, timers, trav, abandoned, loops, storeConn,
                   storeError, isLoading, initResult, tornDown, stable, pollErrors,
                   rejected, dbg, gasFees, lastUpdate, storeValues>>
    /\ exhausted' = IF exhausted = "off" THEN "off" ELSE "none"

(***************************************************************************)
(* disconnect (lines 393-410).                                             *)
(***************************************************************************)
\* lines 402-404: clearTimeout on every handle the map holds
ClearStoredLoops(ls) ==
    [j \in 1..Len(ls) |->
        [ls[j] EXCEPT !.interval = IF ls[j].stored /\ ls[j].interval = "active"
                                     THEN "cleared" ELSE ls[j].interval,
                      !.stored = FALSE]]

Disconnect ==
    /\ web3Service.set
    /\ timers' = [c \in Chains |-> [timers[c] EXCEPT !["retry"] = 0]]
    /\ loops' = [c \in Chains |-> ClearStoredLoops(loops[c])]
    /\ providers' = [c \in Chains |-> NoProvider]
    /\ isConnected' = [c \in Chains |-> "undefined"]
    /\ tornDown' = TRUE
    /\ UNCHANGED <<trav, abandoned, storeConn, reading, storeError, isLoading,
                   initResult, stable, pollErrors, rejected, dbg, exhausted,
                   gasFees, lastUpdate, storeValues>>

(***************************************************************************)
(* RpcDebugger.testRpcEndpoint (src/unnamed/part_005, lines 91-127).       *)
(***************************************************************************)
NoBlockNumber == [t |-> "undefined", v |-> 0]

NotCalled == [called |-> FALSE, success |-> FALSE, blockNumber |-> NoBlockNumber]

\* lines 105-117: getBlockNumber won the race and resolved to x
testRpcEndpointAnswered(x) == [called |-> TRUE, success |-> TRUE, blockNumber |-> x]

\* lines 118-126: getBlockNumber rejected or the timeout won the race
testRpcEndpointFailed == [called |-> TRUE, success |-> FALSE, blockNumber |-> NoBlockNumber]

\* one call of testRpcEndpoint, from the call to its result
DbgProbe ==
    /\ \/ \E x \in BlockNumbers : dbg' = testRpcEndpointAnswered(x)
       \/ dbg' = testRpcEndpointFailed
    /\ UNCHANGED <<providers, isConnected, timers, trav, abandoned, loops, storeConn,
                   reading, storeError, isLoading, initResult, tornDown, stable,
                   pollErrors, rejected, exhausted,
                   gasFees, lastUpdate, storeValues>>

(***************************************************************************)
(* Environment: a candidate becomes reachable and stays so.                *)
(***************************************************************************)
BecomesStable(c, u) ==
    /\ stable[c] = 0
    /\ stable' = [stable EXCEPT ![c] = u]
    /\ UNCHANGED <<providers, isConnected, timers, trav, abandoned, loops, storeConn,
                   reading, storeError, isLoading, initResult, tornDown, pollErrors,
                   rejected, dbg, exhausted,
                   gasFees, lastUpdate, storeValues>>

(***************************************************************************)
(* The fee values of a reading (web3Service.ts 183-208, gasStore.ts        *)
(* 63-69 and 90-147). A JavaScript number is a record: a finite value, or  *)
(* NaN, Infinity or -Infinity. A field of a provider's answer is null or a *)
(* bigint. Amounts are counted in Gwei.                                     *)
(***************************************************************************)
\* largest fee an endpoint reports or a caller passes
MaxFee == 3
\* minutes between two calls of updateGas that are not made at the same time
TimeStep == 10
\* minutes the clock runs for
MaxTime == 20
\* points a history may exceed the limit of 100 by
MaxExtra == 2

\* ethers.parseUnits('2', 'gwei') (line 200) and ethers.parseUnits('1', 'gwei') (line 204)
DefaultPriorityGweiEthereum == 2
DefaultPriorityGwei == 1

Num(v) == [k |-> "finite", v |-> v]
NaN == [k |-> "NaN", v |-> 0]
Infinity == [k |-> "Infinity", v |-> 0]
NegInfinity == [k |-> "-Infinity", v |-> 0]
Null == [k |-> "null", v |-> 0]
Big(v) == [k |-> "bigint", v |-> v]

\* the numbers a caller can pass to updateGas
JsNumbers == {NaN, Infinity, NegInfinity} \cup {Num(v) : v \in (0 - 1)..MaxFee}
\* baseFeePerGas of a block, maxPriorityFeePerGas of a FeeData: null | bigint
BigInts == {Null} \cup {Big(v) : v \in 0..MaxFee}

\* isFinite(x) of JavaScript
isFinite(x) == x.k = "finite"
\* if (b) on a value that is null | bigint: null and 0n are falsy
Truthy(b) == b.k = "bigint" /\ b.v # 0
\* Number(b) of a bigint (exact below 2^53)
Number(b) == Num(b.v)
\* ethers.parseUnits(n, 'gwei')
parseUnits(n) == Big(n)

\* the outcomes of provider.getFeeData(): an answer, an exception; NotAsked off ethereum
FeeAnswer(b) == [ok |-> TRUE, asked |-> TRUE, maxPriorityFeePerGas |-> b]
FeeThrew == [ok |-> FALSE, asked |-> TRUE, maxPriorityFeePerGas |-> Null]
NotAsked == [ok |-> FALSE, asked |-> FALSE, maxPriorityFeePerGas |-> Null]
FeeOutcomes(c) == IF c = "ethereum" THEN {FeeThrew} \cup {FeeAnswer(b) : b \in BigInts}
                  ELSE {NotAsked}

\* lines 184-190: let baseFee = 0; if (latestBlock.baseFeePerGas) baseFee = Number(...)
BaseFeeOf(baseFeePerGas) ==
    IF Truthy(baseFeePerGas) THEN Number(baseFeePerGas) ELSE Num(0)

\* lines 185, 192-205: let priorityFee = 0; then by network
PriorityFeeOf(c, fee) ==
    IF c = "ethereum"
    THEN IF fee.ok
         THEN IF Truthy(fee.maxPriorityFeePerGas) THEN Number(fee.maxPriorityFeePerGas)
              ELSE Num(0)
         ELSE Number(parseUnits(DefaultPriorityGweiEthereum))
    ELSE Number(parseUnits(DefaultPriorityGwei))

\* gasStore.ts 63-69: baseFee: 0, priorityFee: 0
initialChainState == [baseFee |-> Num(0), priorityFee |-> Num(0)]

\* gasStore.ts 93-94: isFinite(x) ? x : 0
safeFee(x) == IF isFinite(x) THEN x ELSE Num(0)

\* gasStore.ts 90-147: the baseFee and priorityFee updateGas stores
updateGasFees(fees, c, baseFee, priorityFee) ==
    [fees EXCEPT ![c] = [baseFee |-> safeFee(baseFee), priorityFee |-> safeFee(priorityFee)]]

NoUpdate == [by |-> "nobody", chain |-> "none", fee |-> NotAsked,
             baseFee |-> Num(0), priorityFee |-> Num(0)]

(***************************************************************************)
(* The history of a network (gasStore.ts 96-133 and 200-209). Time is      *)
(* counted in minutes. The variable history holds the points of every      *)
(* network where they are recorded; where they are not (recorded = FALSE)  *)
(* updateGas leaves it as it is.                                            *)
(***************************************************************************)
\* line 130: updatedHistory.length > 100, slice(-100)
HistoryLimit == 100
\* line 114: intervalMs = 15 * 60 * 1000
IntervalMinutes == 15

NotRecorded == [recorded |-> FALSE, points |-> [c \in Chains |-> <<>>]]
EmptyHistory == [recorded |-> TRUE, points |-> [c \in Chains |-> <<>>]]

\* lines 97-100: currentGas = (safeBaseFee + safePriorityFee) / 1e9, a finite number since
\* both terms are; amounts are in Gwei already
safeCurrentGas(baseFee, priorityFee) == safeFee(baseFee).v + safeFee(priorityFee).v

\* lines 115 and 120: Math.floor(time / intervalMs) * intervalMs
IntervalOf(time) == (time \div IntervalMinutes) * IntervalMinutes

\* lines 103-111: the point of a new interval opens with the close of the last point
newPoint(h, timestamp, gas) ==
    [time |-> timestamp,
     open |-> IF Len(h) > 0 THEN h[Len(h)].close ELSE gas,
     high |-> gas, low |-> gas, close |-> gas]

\* updatedHistory.slice(-n): the last n entries
SliceLast(h, n) == IF Len(h) > n THEN SubSeq(h, Len(h) - n + 1, Len(h)) ELSE h

\* lines 117-133: the history of a network after updateGas at timestamp with value gas
updatedHistory(h, timestamp, gas) ==
    IF Len(h) > 0 /\ IntervalOf(h[Len(h)].time) = IntervalOf(timestamp)
      THEN [h EXCEPT ![Len(h)] = [time |-> timestamp,
                                  open |-> h[Len(h)].open,
                                  high |-> Max(h[Len(h)].high, gas),
                                  low |-> Min(h[Len(h)].low, gas),
                                  close |-> gas]]
      ELSE LET pushed == Append(h, newPoint(h, timestamp, gas))
           IN  IF Len(pushed) > HistoryLimit THEN SliceLast(pushed, HistoryLimit)
               ELSE pushed

\* gasStore.ts 90-147: the history updateGas stores
updateGasHistory(hist, c, timestamp, baseFee, priorityFee) ==
    IF hist.recorded
      THEN [hist EXCEPT !.points[c] =
                updatedHistory(@, timestamp, safeCurrentGas(baseFee, priorityFee))]
      ELSE hist

\* lines 183-208: pollLatestBlock got a block with this baseFeePerGas, computed the fees
\* and called store.updateGas
LiveReading(c, baseFeePerGas, fee) ==
    /\ gasFees' = updateGasFees(gasFees, c, BaseFeeOf(baseFeePerGas), PriorityFeeOf(c, fee))
    /\ lastUpdate' = [by |-> "poll", chain |-> c, fee |-> fee,
                      baseFee |-> BaseFeeOf(baseFeePerGas),
                      priorityFee |-> PriorityFeeOf(c, fee)]
    /\ history' = updateGasHistory(history, c, now, BaseFeeOf(baseFeePerGas),
                                   PriorityFeeOf(c, fee))
    /\ UNCHANGED <<providers, isConnected, timers, trav, abandoned, loops, storeConn,
                   reading, storeError, isLoading, initResult, tornDown, stable,
                   pollErrors, rejected, dbg, exhausted, simulated, now, usdPrice,
                   simulationInput, simulationResults, web3Service>>

\* gasStore.ts 90-147: some caller calls store.updateGas(c, baseFee, priorityFee)
UpdateGasCalled(c, baseFee, priorityFee) ==
    /\ gasFees' = updateGasFees(gasFees, c, baseFee, priorityFee)
    /\ lastUpdate' = [by |-> "caller", chain |-> c, fee |-> NotAsked,
                      baseFee |-> baseFee, priorityFee |-> priorityFee]
    /\ history' = updateGasHistory(history, c, now, baseFee, priorityFee)
    /\ UNCHANGED <<providers, isConnected, timers, trav, abandoned, loops, storeConn,
                   reading, storeError, isLoading, initResult, tornDown, stable,
                   pollErrors, rejected, dbg, exhausted, simulated, now, usdPrice,
                   simulationInput, simulationResults, web3Service>>

\* gasStore.ts 200-209: addHistoryPoint(c, point) appends the point
addHistoryPoint(c, point) ==
    /\ history.recorded
    /\ Len(history.points[c]) < HistoryLimit + MaxExtra
    /\ history' = [history EXCEPT !.points[c] = Append(@, point)]
    /\ UNCHANGED <<providers, isConnected, timers, trav, abandoned, loops, storeConn,
                   reading, storeError, isLoading, initResult, tornDown, stable,
                   pollErrors, rejected, dbg, exhausted, gasFees, lastUpdate, simulated,
                   now, usdPrice, simulationInput, simulationResults, web3Service>>

\* time passes until the next call: Date.now() grows
TimePasses ==
    /\ now + TimeStep <= MaxTime
    /\ now' = now + TimeStep
    /\ UNCHANGED <<providers, isConnected, timers, trav, abandoned, loops, storeConn,
                   reading, storeError, isLoading, initResult, tornDown, stable,
                   pollErrors, rejected, dbg, exhausted, gasFees, lastUpdate, simulated,
                   history, usdPrice, simulationInput, simulationResults, web3Service>>

(***************************************************************************)
(* simulateGasPrices (web3Service.ts 341-384): the fees of a simulation    *)
(* tick. Math.random() returns k / RandomSteps for some k below            *)
(* RandomSteps. A fee is counted in thousandths of a Gwei and kept         *)
(* multiplied by RandomSteps, so that every value is an integer.           *)
(***************************************************************************)
\* values Math.random() can return
RandomSteps == 3

Draws == 0..(RandomSteps - 1)

\* the networks simulateGasPrices computes fees for
SimChains == {"ethereum", "polygon", "arbitrum"}

\* lines 345-352: Math.max(floor, start + Math.random() * span - shift), in 1/1000 Gwei
SimBase ==
    [ethereum |-> [floor |-> 10000, start |-> 15000, span |-> 40000, shift |-> 10000],
     polygon  |-> [floor |-> 15000, start |-> 25000, span |-> 100000, shift |-> 25000],
     arbitrum |-> [floor |-> 50, start |-> 200, span |-> 600, shift |-> 150]]

SimPriority ==
    [ethereum |-> [floor |-> 500, start |-> 1000, span |-> 4000, shift |-> 1000],
     polygon  |-> [floor |-> 500, start |-> 1000, span |-> 3000, shift |-> 500],
     arbitrum |-> [floor |-> 5, start |-> 20, span |-> 80, shift |-> 15]]

\* README, Gas Price Ranges (Simulation Fallback): the base fee of each network, in 1/1000 Gwei
DocumentedBase ==
    [ethereum |-> [min |-> 15000, max |-> 35000],
     polygon  |-> [min |-> 20000, max |-> 100000],
     arbitrum |-> [min |-> 100, max |-> 500]]

\* Math.max(floor, start + r * span - shift) for r = k / RandomSteps, times RandomSteps
SimFee(range, k) ==
    Max(range.floor * RandomSteps, range.start * RandomSteps + k * range.span
                                   - range.shift * RandomSteps)

NoDraw == [ran |-> FALSE,
           fees |-> [c \in SimChains |-> [baseFee |-> 0, priorityFee |-> 0]]]

\* lines 341-371 with the six values Math.random() returned: the fees are computed for every
\* network and handed to store.updateGas for the networks that are not connected
simulateGasPrices(draw) ==
    /\ web3Service.set
    /\ simulated' = [ran |-> TRUE,
                     fees |-> [c \in SimChains |->
                                  [baseFee |-> SimFee(SimBase[c], draw[c].base),
                                   priorityFee |-> SimFee(SimPriority[c], draw[c].priority)]]]
    /\ reading' = [c \in Chains |-> IF c \in SimTargets THEN "sim" ELSE reading[c]]
    /\ exhausted' = IF exhausted = "off" THEN "off" ELSE "none"
    /\ UNCHANGED <<providers, isConnected, timers, trav, abandoned, loops, storeConn,
                   storeError, isLoading, initResult, tornDown, stable, pollErrors,
                   rejected, dbg, gasFees, lastUpdate, history, now, usdPrice,
                   simulationInput, simulationResults, web3Service>>

(***************************************************************************)
(* The transaction simulator: setUsdPrice, setSimulationInput and          *)
(* calculateSimulation (gasStore.ts 149-185) and the amount field of the   *)
(* TransactionSimulator component (part_002 72-80).                        *)
(***************************************************************************)
\* line 166: gasLimit = 21000, a standard ETH transfer
gasLimit == 21000

\* a text: a decimal number (counted in tenths), the empty text, or a text that is no number
Decimal(v) == [k |-> "decimal", v |-> v]
EmptyText == [k |-> "empty", v |-> 0]
NoNumber == [k |-> "text", v |-> 0]

\* gasStore.ts 80-83: simulationInput.amount is '0.5' at first
InitialAmount == Decimal(5)

\* what a user can type into the amount field
Typed == {Decimal(v) : v \in {0 - 5, 0, 5}} \cup {EmptyText, NoNumber}

\* part_002 73-75: e.target.value of <input type="number">: the text when it is a valid
\* number, the empty text otherwise
InputValue(typed) == IF typed.k = "decimal" THEN typed ELSE EmptyText

\* line 158: simulationInput.amount || '0'
OrZeroText(text) == IF text = EmptyText THEN Decimal(0) ELSE text

\* parseFloat of a text that is not empty
parseFloat(text) == IF text.k = "decimal" THEN Num(text.v) ELSE NaN

\* x <= 0 of JavaScript: false for NaN
LessOrEqualZero(x) == (x.k = "finite" /\ x.v <= 0) \/ x.k = "-Infinity"

\* x > 0 of JavaScript: false for NaN
GreaterThanZero(x) == (x.k = "finite" /\ x.v > 0) \/ x.k = "Infinity"

\* Object.entries(chains): the networks in the order of the store's object
ChainOrder == <<"ethereum", "polygon">>

\* variant of HasResult: every network gets a result
HasResultAlways(chainData) == TRUE

\* line 169: chainData.baseFee > 0
HasResult(chainData) == GreaterThanZero(chainData.baseFee)

\* lines 170-180: the result of one network; totalCostUSD = totalGasCost / 1e18 * usdPrice
\* with wei for Gwei is counted in 1e-9 USD
SimulationResult(c, chainData, price) ==
    LET totalGasCost == (chainData.baseFee.v + chainData.priorityFee.v) * gasLimit
    IN  [chain |-> c, gasLimit |-> gasLimit, totalGasCost |-> totalGasCost,
         totalCostUSD |-> totalGasCost * price.v,
         baseFee |-> chainData.baseFee, priorityFee |-> chainData.priorityFee]

\* lines 156-185: the list calculateSimulation stores
CalculatedResults(chains, price, input) ==
    LET amount == parseFloat(OrZeroText(input))
        with == SelectSeq(ChainOrder, LAMBDA c : HasResult(chains[c]))
    IN  IF LessOrEqualZero(amount) \/ LessOrEqualZero(price)
          THEN <<>>
          ELSE [i \in 1..Len(with) |-> SimulationResult(with[i], chains[with[i]], price)]

\* lines 156-185, called by the effect of part_002 25-27
calculateSimulation ==
    /\ simulationResults' = CalculatedResults(gasFees, usdPrice, simulationInput)
    /\ UNCHANGED <<providers, isConnected, timers, trav, abandoned, loops, storeConn,
                   reading, storeError, isLoading, initResult, tornDown, stable,
                   pollErrors, rejected, dbg, exhausted, gasFees, lastUpdate, simulated,
                   history, now, usdPrice, simulationInput, web3Service>>

\* line 149: setUsdPrice(price)
setUsdPrice(price) ==
    /\ usdPrice' = IF isFinite(price) THEN price ELSE Num(0)
    /\ UNCHANGED <<providers, isConnected, timers, trav, abandoned, loops, storeConn,
                   reading, storeError, isLoading, initResult, tornDown, stable,
                   pollErrors, rejected, dbg, exhausted, gasFees, lastUpdate, simulated,
                   history, now, simulationInput, simulationResults, web3Service>>

\* part_002 75 and gasStore.ts 151-154: the user types into the amount field and onChange
\* calls setSimulationInput({ amount: e.target.value })
onChangeAmount(typed) ==
    /\ simulationInput' = InputValue(typed)
    /\ UNCHANGED <<providers, isConnected, timers, trav, abandoned, loops, storeConn,
                   reading, storeError, isLoading, initResult, tornDown, stable,
                   pollErrors, rejected, dbg, exhausted, gasFees, lastUpdate, simulated,
                   history, now, usdPrice, simulationResults, web3Service>>

(***************************************************************************)
(* getWeb3Service (web3Service.ts 412-420) and the constructor (59-61).    *)
(***************************************************************************)
\* calls of getWeb3Service
MaxCalls == 2

\* variant of IsSet: the module variable is never found set
NeverSet(w) == FALSE

\* line 416 negated: web3Service is not null
IsSet(w) == w.set

\* line 413: let web3Service: Web3Service | null = null, after the module was loaded
NoService == [set |-> FALSE, constructed |-> 0, calls |-> 0, late |-> FALSE]

\* lines 59-87: new Web3Service() runs initializeConnections up to its first await:
\* loading set, error cleared, the first simulated reading written for every network, one
\* connectToChain per network awaiting the probe of its first candidate
Web3ServiceConstructor ==
    /\ providers' = [c \in Chains |-> NoProvider]
    /\ isConnected' = [c \in Chains |-> "undefined"]
    /\ timers' = [c \in Chains |-> NoTimers]
    /\ trav' = [c \in Chains |-> Append(trav[c], [i |-> 1, init |-> TRUE])]
    /\ loops' = [c \in Chains |-> <<>>]
    /\ reading' = [c \in Chains |-> "sim"]
    /\ storeError' = "null"
    /\ isLoading' = TRUE
    /\ initResult' = [c \in Chains |-> "pending"]
    /\ tornDown' = FALSE
    /\ UNCHANGED <<abandoned, storeConn, rejected>>

\* lines 415-420: one call of getWeb3Service
getWeb3Service ==
    /\ web3Service.calls < MaxCalls
    /\ IF ~IsSet(web3Service)
         THEN /\ web3Service' = [set |-> TRUE,
                                 constructed |-> web3Service.constructed + 1,
                                 calls |-> web3Service.calls + 1,
                                 late |-> web3Service.late \/ tornDown]
              /\ Web3ServiceConstructor
         ELSE /\ web3Service' = [web3Service EXCEPT !.calls = @ + 1,
                                                    !.late = @ \/ tornDown]
              /\ UNCHANGED <<providers, isConnected, timers, trav, abandoned, loops,
                             storeConn, reading, storeError, isLoading, initResult,
                             tornDown, rejected>>
    /\ UNCHANGED <<stable, pollErrors, dbg, exhausted, gasFees, lastUpdate, simulated,
                   history, now, usdPrice, simulationInput, simulationResults>>

(***************************************************************************)
(* The state after `new Web3Service()`: the constructor runs                *)
(* initializeConnections up to its first await (lines 63-87): loading set, *)
(* the first simulation tick done for every chain (line 387), one          *)
(* connectToChain per chain awaiting the probe of its first candidate.     *)
(***************************************************************************)
InitService ==
    /\ providers = [c \in Chains |-> NoProvider]
    /\ isConnected = [c \in Chains |-> "undefined"]
    /\ timers = [c \in Chains |-> NoTimers]
    /\ trav = [c \in Chains |-> <<[i |-> 1, init |-> TRUE]>>]
    /\ abandoned = [c \in Chains |-> FALSE]
    /\ loops = [c \in Chains |-> <<>>]
    /\ storeConn = [c \in Chains |-> FALSE]
    /\ reading = [c \in Chains |-> "sim"]
    /\ storeError = "null"
    /\ isLoading = TRUE
    /\ initResult = [c \in Chains |-> "pending"]
    /\ tornDown = FALSE
    /\ stable = [c \in Chains |-> 0]
    /\ pollErrors = 0
    /\ rejected = [c \in Chains |-> FALSE]
    /\ dbg = NotCalled
    /\ gasFees = [c \in Chains |-> initialChainState]
    /\ lastUpdate = NoUpdate
    /\ simulated = NoDraw
    /\ now = 0
    /\ usdPrice = Num(0)
    /\ simulationInput = InitialAmount
    /\ simulationResults = <<>>
    /\ web3Service = [set |-> TRUE, constructed |-> 1, calls |-> 1, late |-> FALSE]

Init == InitService /\ exhausted = "off" /\ history = NotRecorded

\* the same state, with the histories recorded from the empty history on
InitRecorded == InitService /\ exhausted = "off" /\ history = EmptyHistory

\* the state after the modules were loaded, before the first call of getWeb3Service: the
\* store as created (gasStore.ts 63-86), no service
InitModule ==
    /\ providers = [c \in Chains |-> NoProvider]
    /\ isConnected = [c \in Chains |-> "undefined"]
    /\ timers = [c \in Chains |-> NoTimers]
    /\ trav = [c \in Chains |-> <<>>]
    /\ abandoned = [c \in Chains |-> FALSE]
    /\ loops = [c \in Chains |-> <<>>]
    /\ storeConn = [c \in Chains |-> FALSE]
    /\ reading = [c \in Chains |-> "none"]
    /\ storeError = "null"
    /\ isLoading = FALSE
    /\ initResult = [c \in Chains |-> "pending"]
    /\ tornDown = FALSE
    /\ stable = [c \in Chains |-> 0]
    /\ pollErrors = 0
    /\ rejected = [c \in Chains |-> FALSE]
    /\ dbg = NotCalled
    /\ exhausted = "off"
    /\ gasFees = [c \in Chains |-> initialChainState]
    /\ lastUpdate = NoUpdate
    /\ simulated = NoDraw
    /\ history = NotRecorded
    /\ now = 0
    /\ usdPrice = Num(0)
    /\ simulationInput = InitialAmount
    /\ simulationResults = <<>>
    /\ web3Service = NoService

\* the same state, with the observer of exhausted connection attempts switched on
InitObserved == InitService /\ exhausted = "none" /\ history = NotRecorded

\* the service between construction and teardown
Next ==
    \/ \E c \in Chains : \E k \in DOMAIN trav[c], x \in BlockNumbers : ProbeAnswered(c, k, x)
    \/ \E c \in Chains : \E k \in DOMAIN trav[c] : ProbeRejected(c, k)
    \/ \E c \in Chains : \E k \in DOMAIN trav[c] : ProbeTimedOut(c, k)
    \/ \E c \in Chains : LateAnswer(c)
    \/ \E c \in Chains, kind \in TimerKinds : TimerFired(c, kind)
    \/ \E c \in Chains : \E l \in DOMAIN loops[c], r \in {"block", "null", "error"} :
          PollAnswered(c, l, r)
    \/ SimTick

Spec == Init /\ [][Next]_vars

\* the service and the standalone endpoint probe
NextDbg == Next \/ DbgProbe

SpecDbg == Init /\ [][NextDbg]_vars

\* the service, teardown included
NextTeardown == Next \/ Disconnect

SpecTeardown == Init /\ [][NextTeardown]_vars

\* the process from the loading of the modules on: the Dashboard calls getWeb3Service when
\* it mounts and disconnect() when it unmounts (part_004 162-175)
NextSingleton == NextTeardown \/ getWeb3Service

SpecSingleton == InitModule /\ [][NextSingleton]_vars

\* the service with the requests of the poll intervals tracked from issue to completion
NextPolls ==
    \/ \E c \in Chains : \E k \in DOMAIN trav[c], x \in BlockNumbers : ProbeAnswered(c, k, x)
    \/ \E c \in Chains : \E k \in DOMAIN trav[c] : ProbeRejected(c, k)
    \/ \E c \in Chains : \E k \in DOMAIN trav[c] : ProbeTimedOut(c, k)
    \/ \E c \in Chains : LateAnswer(c)
    \/ \E c \in Chains, kind \in TimerKinds : TimerFired(c, kind)
    \/ \E c \in Chains : \E l \in DOMAIN loops[c] : PollIssued(c, l)
    \/ \E c \in Chains : \E l \in DOMAIN loops[c], r \in {"block", "null", "error"} :
          PollCompletes(c, l, r)
    \/ SimTick

SpecPolls == Init /\ [][NextPolls]_vars

\* the service with the observer of exhausted connection attempts, in an environment
\* whose endpoints answer a probe with a good block number or not in time
NextObserved ==
    \/ \E c \in Chains : \E k \in DOMAIN trav[c] : ProbeAnswered(c, k, GoodBlockNumber)
    \/ \E c \in Chains : \E k \in DOMAIN trav[c] : ProbeTimedOut(c, k)
    \/ \E c \in Chains : LateAnswer(c)
    \/ \E c \in Chains, kind \in TimerKinds : TimerFired(c, kind)
    \/ \E c \in Chains : \E l \in DOMAIN loops[c], r \in {"block", "null", "error"} :
          PollAnswered(c, l, r)
    \/ SimTick

SpecObserved == InitObserved /\ [][NextObserved]_vars

\* the service with an environment in which candidates become permanently reachable
NextFair == Next \/ \E c \in Chains, u \in Urls : BecomesStable(c, u)

\* A timer that was set fires (setTimeout); a probe that is not answered loses its race
\* to the 5 s timeout (line 124); the candidate that stays reachable answers its probe.
Fairness ==
    \A c \in Chains :
        /\ WF_vars(\E kind \in TimerKinds : TimerFired(c, kind))
        /\ WF_vars(\E k \in DOMAIN trav[c] : ProbeTimedOut(c, k))
        /\ WF_vars(\E k \in DOMAIN trav[c] :
                      /\ urlsToTry[trav[c][k].i] = stable[c]
                      /\ ProbeAnswered(c, k, GoodBlockNumber))

FairSpec == Init /\ [][NextFair]_vars /\ Fairness

\* the service, where a probe that is not answered loses its race to the timeout of
\* DEV_CONFIG.connectionTimeout (lines 122-130): the setTimeout of line 124 fires
TimeoutFairness ==
    \A c \in Chains : WF_vars(\E k \in DOMAIN trav[c] : ProbeTimedOut(c, k))

SpecTimeouts == Init /\ [][Next]_vars /\ TimeoutFairness

\* the fee values alone: live readings of every block and fee-data outcome, and calls of
\* store.updateGas with every number; the connection manager does not move
NextFees ==
    \/ \E c \in Chains, b \in BigInts : \E fee \in FeeOutcomes(c) : LiveReading(c, b, fee)
    \/ \E c \in Chains, b \in JsNumbers, p \in JsNumbers : UpdateGasCalled(c, b, p)

SpecFees == Init /\ [][NextFees]_vars

\* the simulation ticks alone, with every combination of random draws
NextSim ==
    \E draw \in [SimChains -> [base : Draws, priority : Draws]] : simulateGasPrices(draw)

SpecSim == Init /\ [][NextSim]_vars

\* the prices setUsdPrice is called with
PriceInputs == {NaN} \cup {Num(v) : v \in 0..2}

\* the transaction simulator: the amount field, the price, the fees of the networks and
\* the calculation
NextSimulator ==
    \/ \E typed \in Typed : onChangeAmount(typed)
    \/ \E price \in PriceInputs : setUsdPrice(price)
    \/ \E c \in Chains, b \in {Num(v) : v \in 0..2}, p \in {Num(v) : v \in 0..1} :
          UpdateGasCalled(c, b, p)
    \/ calculateSimulation

SpecSimulator == Init /\ [][NextSimulator]_vars

\* the finite fees a caller passes in the history specifications
FeeInputs == {Num(v) : v \in 1..MaxFee}

\* the histories under updateGas alone, from the empty history, with time passing
NextHistory ==
    \/ TimePasses
    \/ \E c \in Chains, b \in FeeInputs : UpdateGasCalled(c, b, Num(0))

SpecHistory == InitRecorded /\ [][NextHistory]_vars

\* a history one point short of the limit: updateGas was called with 1 Gwei once in each of
\* the last HistoryLimit - 1 intervals before this one (times before minute 0 are negative)
LongHistory ==
    [i \in 1..(HistoryLimit - 1) |->
        [time |-> (i - HistoryLimit) * IntervalMinutes,
         open |-> 1, high |-> 1, low |-> 1, close |-> 1]]

InitLongHistory ==
    /\ InitService /\ exhausted = "off"
    /\ history = [recorded |-> TRUE, points |-> [c \in Chains |-> LongHistory]]

\* the points a caller of addHistoryPoint passes: one of 1 Gwei, of this minute
PointsNow == {[time |-> now, open |-> 1, high |-> 1, low |-> 1, close |-> 1]}

\* the histories under updateGas and addHistoryPoint near the limit
NextHistoryLimit ==
    \/ TimePasses
    \/ \E c \in Chains : UpdateGasCalled(c, Num(1), Num(0))
    \/ \E c \in Chains, point \in PointsNow : addHistoryPoint(c, point)

SpecHistoryLimit == InitLongHistory /\ [][NextHistoryLimit]_vars

(***************************************************************************)
(* Properties.                                                             *)
(***************************************************************************)
\* the probe call k of connectToChain(c) awaits is answered with a rejected block number
InvalidAnswer(c, k) ==
    \E x \in BlockNumbers : ~IsValidBlockNumber(x) /\ ProbeAnswered(c, k, x)

\* the probe call k of connectToChain(c) awaits fails, in any of the three ways
ProbeFails(c, k) == ProbeRejected(c, k) \/ ProbeTimedOut(c, k) \/ InvalidAnswer(c, k)

\* the probe call k of connectToChain(c) awaits is answered with an accepted block number
ProbeSucceeds(c, k) ==
    \E x \in BlockNumbers : IsValidBlockNumber(x) /\ ProbeAnswered(c, k, x)

\* C1: a connection attempt probes the candidates one at a time in the configured order:
\* a call awaits the probe of one candidate; when that probe succeeds the candidate
\* becomes the network's provider, the network is Connected and the call ends without
\* probing a later candidate; when it fails the call goes on to the next candidate in
\* order and leaves provider and status alone, or ends when the candidate was the last.
C1_SequentialFirstSuccessWins ==
    [][\A c \in Chains : \A k \in DOMAIN trav[c] :
          LET i == trav[c][k].i IN
          /\ ProbeSucceeds(c, k) =>
                /\ providers'[c].url = urlsToTry[i]
                /\ isConnected'[c] = "true"
                /\ trav'[c] = RemoveAt(trav[c], k)
          /\ ProbeFails(c, k) =>
                /\ providers'[c] = providers[c]
                /\ IF i < NumUrls
                     THEN /\ trav'[c] = [trav[c] EXCEPT ![k].i = i + 1]
                          /\ isConnected'[c] = isConnected[c]
                     ELSE trav'[c] = RemoveAt(trav[c], k)]_vars

\* C1 witness: a network is connected through its second candidate, the first having failed
C1_Witness ==
    \E c \in Chains : isConnected[c] = "true" /\ providers[c].url = urlsToTry[2]

\* consecutive failed polls of the connection chain c uses, once the poll of loop l has
\* failed; a network whose status a loop restored uses that loop's connection
FailuresOfCurrent(c, l) ==
    IF providers[c].loop \in {0, l} THEN CountError(loops[c][l].errs)
    ELSE loops[c][providers[c].loop].errs

\* C2: a failed poll moves a Connected network to Disconnected exactly when it is the third
\* consecutive failed poll of the network's current connection.
C2_DisconnectedAfterThreeFailures ==
    [][\A c \in Chains : \A l \in DOMAIN loops[c] :
          (PollAnswered(c, l, "error") /\ isConnected[c] = "true") =>
              (isConnected'[c] = "false" <=>
                   FailuresOfCurrent(c, l) = maxConsecutiveErrors)]_vars

\* C3: a tick of the simulation leaves the reading of every Connected network alone and
\* writes a simulated reading for every network that is not Connected.
C3_SimulationWritesNotConnected ==
    [][SimTick => \A c \in Chains :
          /\ isConnected[c] = "true" => reading'[c] = reading[c]
          /\ isConnected[c] # "true" => reading'[c] = "sim"]_vars

\* C3 witness: the simulation has written the network that is not Connected and the
\* Connected one holds the reading of its poll
C3_Witness ==
    \E c, d \in Chains :
        /\ isConnected[c] = "true" /\ reading[c] = "live"
        /\ isConnected[d] = "false" /\ reading[d] = "sim"

\* C4: one source per network at any moment: a live reading is written only while the
\* network is Connected, a simulated one only while it is not, and every network has a
\* reading of one of the two sources.
C4_OneAuthoritativeSource ==
    [][\A c \in Chains :
          /\ (\E l \in DOMAIN loops[c] : PollAnswered(c, l, "block")) =>
                isConnected[c] = "true"
          /\ (SimTick /\ reading'[c] # reading[c]) => isConnected[c] # "true"
          /\ reading'[c] \in {"live", "sim"}]_vars

\* C5: the published reading of a network is the live one when the network is Connected
\* and its most recent poll succeeded, and the simulated one otherwise.
C5_PublishedReading ==
    [][\A c \in Chains :
          /\ \A l \in DOMAIN loops[c] :
                /\ (PollAnswered(c, l, "block") /\ isConnected'[c] = "true") =>
                       reading'[c] = "live"
                /\ PollAnswered(c, l, "error") => reading'[c] = "sim"
          /\ isConnected'[c] # "true" => reading'[c] = "sim"]_vars

\* C6: when the probe of the last candidate fails, all candidates have failed: the network
\* is not connected in the service and in the store, one more reconnect timer is pending,
\* and the call of connectToChain ends by returning.
C6_AllCandidatesFailed ==
    [][\A c \in Chains : \A k \in DOMAIN trav[c] :
          (IsLastUrl(trav[c][k].i) /\ ProbeFails(c, k)) =>
              /\ isConnected'[c] = "false"
              /\ storeConn'[c] = FALSE
              /\ PendingTimers(c)' = PendingTimers(c) + 1
              /\ trav'[c] = RemoveAt(trav[c], k)
              /\ ~rejected'[c]]_vars

\* C6 witness: every candidate of a network has failed before it was ever connected
C6_Witness ==
    \E c \in Chains :
        /\ isConnected[c] = "false" /\ ~storeConn[c] /\ loops[c] = <<>>
        /\ timers[c]["retry"] = 1 /\ trav[c] = <<>> /\ ~rejected[c]

\* C7: an endpoint that answers with a height that is not a positive number is a failed
\* probe, for the manager (no connection is made) and for the standalone endpoint test
\* (which does not report success).
C7_InvalidHeightFailsProbe ==
    [][/\ \A c \in Chains : \A k \in DOMAIN trav[c] : \A x \in BlockNumbers :
             (ProbeAnswered(c, k, x) /\ ~IsPositiveNumber(x)) =>
                 /\ Len(loops'[c]) = Len(loops[c])
                 /\ providers'[c] = providers[c]
       /\ \A x \in BlockNumbers :
             (DbgProbe /\ dbg' = testRpcEndpointAnswered(x) /\ ~IsPositiveNumber(x)) =>
                 ~dbg'.success]_vars

\* C8: a probe that times out counts as failed, so the call goes on to the next candidate
\* (or ends, after the last); the answer of a request that was abandoned changes neither
\* the connection state nor the store.
C8_TimeoutAndLateAnswer ==
    [][\A c \in Chains :
          /\ LateAnswer(c) =>
                UNCHANGED <<providers, isConnected, timers, trav, loops, storeConn,
                            reading, storeError, isLoading, initResult, rejected>>
          /\ \A k \in DOMAIN trav[c] :
                ProbeTimedOut(c, k) =>
                    /\ providers' = providers
                    /\ IF IsLastUrl(trav[c][k].i)
                         THEN trav'[c] = RemoveAt(trav[c], k)
                         ELSE /\ trav'[c] = [trav[c] EXCEPT ![k].i = trav[c][k].i + 1]
                              /\ isConnected' = isConnected]_vars

\* C8 witness: the network is connected through its second candidate while a request
\* that timed out is still in flight
C8_Witness ==
    \E c \in Chains :
        abandoned[c] /\ isConnected[c] = "true" /\ providers[c].url = urlsToTry[2]

\* C9: every reconnection attempt is started by a timer that was set, at the moment the
\* network became Disconnected, with a delay of at least the 30 s backoff.
C9_ReconnectAfterBackoff ==
    [][\A c \in Chains, kind \in TimerKinds :
          TimerFired(c, kind) => TimerDelay(kind) >= BackoffMs]_vars

\* a reconnection of chain c is pending or in progress
ReconnectUnderWay(c) == PendingTimers(c) > 0 \/ trav[c] # <<>>

C11_CounterResetOnSuccess ==
    \A c \in Chains : \A l \in DOMAIN loops[c] :
        /\ LoopsAfterBlock(loops[c], l)[l].errs = 0
        /\ LoopsAfterNull(loops[c], l)[l].errs = 0

\* C12: teardown cancels every pending timer of the service (reconnect timers and poll
\* intervals; the simulation and price intervals are the steps SimTick stands for), and
\* once teardown has been initiated no later step changes the connection state of the
\* service or the store.
C12_TeardownIsFinal ==
    [][/\ Disconnect =>
             \A c \in Chains :
                 /\ PendingTimers(c)' = 0
                 /\ \A l \in DOMAIN loops'[c] : loops'[c][l].interval # "active"
       /\ (tornDown /\ ~Disconnect) =>
             UNCHANGED <<providers, isConnected, storeConn, reading, storeError,
                         isLoading>>]_vars

\* C13: a poll of a network is never issued while an earlier poll of that network is
\* still in flight, so the results of the polls are applied in the order of the requests.
C13_PollsDoNotOverlap ==
    [][\A c \in Chains : \A l \in DOMAIN loops[c] :
          PollIssued(c, l) =>
              \A m \in DOMAIN loops[c] :
                  loops[c][m].inflight = 0 /\ loops[c][m].interval # "none"]_vars

\* a step of the service that belongs to network a: a probe of it is answered, rejected
\* or timed out, an abandoned request of it settles, one of its reconnect timers fires,
\* one of its polls completes
StepOfNetwork(a) ==
    \/ \E k \in DOMAIN trav[a] : ProbeFails(a, k) \/ ProbeSucceeds(a, k)
    \/ LateAnswer(a)
    \/ \E kind \in TimerKinds : TimerFired(a, kind)
    \/ \E l \in DOMAIN loops[a], r \in {"block", "null", "error"} : PollAnswered(a, l, r)

\* C14: networks are independent. A step of network a leaves the connection flag (in the
\* service and in the store), the provider, the monitoring loops with their failure
\* counters, the running connection attempts, the timers and the published reading of
\* every other network b unchanged; and whatever network a is waiting for, every probe of
\* b can fail over or (while the model may start a loop) succeed and every poll of b can
\* complete.
C14_NetworksIndependent ==
    /\ [][\A a, b \in Chains :
             (a # b /\ StepOfNetwork(a)) =>
                 /\ isConnected'[b] = isConnected[b]
                 /\ storeConn'[b] = storeConn[b]
                 /\ providers'[b] = providers[b]
                 /\ loops'[b] = loops[b]
                 /\ trav'[b] = trav[b]
                 /\ timers'[b] = timers[b]
                 /\ reading'[b] = reading[b]]_vars
    /\ [](\A b \in Chains :
             /\ \A k \in DOMAIN trav[b] :
                   /\ ENABLED ProbeTimedOut(b, k)
                   /\ TotalLoops < MaxLoops => ENABLED ProbeAnswered(b, k, GoodBlockNumber)
             /\ \A l \in DOMAIN loops[b] : ENABLED PollAnswered(b, l, "block"))

\* C14 witness: one network has not got past its first candidate while the other one is
\* connected and has published the reading of a poll
C14_Witness ==
    \E a, b \in Chains :
        /\ a # b
        /\ trav[a] = <<[i |-> 1, init |-> TRUE]>> /\ isConnected[a] = "undefined"
        /\ isConnected[b] = "true" /\ reading[b] = "live" /\ loops[b] # <<>>

\* the poll of loop l fails and the service declares network c, Connected until then, lost
DeclaredLost(c, l) ==
    PollAnswered(c, l, "error") /\ isConnected[c] = "true" /\ isConnected'[c] = "false"

\* C15: when the active endpoint of a Connected network reaches the poll-failure
\* threshold, it is the candidate tried last from then on: it is the last entry of the
\* order every later connection attempt of the network probes (urlsToTry, which each
\* call of connectToChain builds anew), and it is still an entry of it.
C15_FailedEndpointTriedLast ==
    [][\A c \in Chains : \A l \in DOMAIN loops[c] :
          (DeclaredLost(c, l) /\ providers[c].loop = l) =>
              /\ urlsToTry[NumUrls] = providers[c].url
              /\ \E i \in Urls : urlsToTry[i] = providers[c].url]_vars

\* C16: when the probe of the last candidate times out the network is Disconnected, in
\* the service and in the store, at the end of that traversal; and the first simulation
\* tick after that, which comes before the 30 s retry timer of the traversal can fire,
\* leaves a simulated reading for that network in the store.
C16_SimulatedReadingAfterTimeouts ==
    [][\A c \in Chains :
          /\ \A k \in DOMAIN trav[c] :
                (IsLastUrl(trav[c][k].i) /\ ProbeTimedOut(c, k)) =>
                    /\ isConnected'[c] = "false"
                    /\ storeConn'[c] = FALSE
                    /\ trav'[c] = RemoveAt(trav[c], k)
          /\ (SimTick /\ exhausted = c /\ timers[c]["retry"] > 0) =>
                reading'[c] = "sim"]_vars

C18_PriorityFeeOfLiveReading ==
    lastUpdate.by = "poll" =>
        LET c == lastUpdate.chain
            fee == lastUpdate.fee
            published == gasFees[c].priorityFee
            default == Num(DefaultPriorityGweiEthereum)
        IN  IF c = "ethereum"
            THEN IF fee.ok
                 THEN IF fee.maxPriorityFeePerGas = Null
                      THEN published = default
                      ELSE published = Number(fee.maxPriorityFeePerGas)
                 ELSE published = default
            ELSE published = Num(DefaultPriorityGwei)

\* C20: the baseFee and priorityFee the store publishes for a network are finite and not
\* negative, whatever numbers updateGas was called with
C20_PublishedFeesFiniteNonNegative ==
    \A c \in Chains :
        /\ isFinite(gasFees[c].baseFee) /\ gasFees[c].baseFee.v >= 0
        /\ isFinite(gasFees[c].priorityFee) /\ gasFees[c].priorityFee.v >= 0

\* C19: in every reachable state, those after disconnect() included, the store's
\* isConnected flag of a network equals the manager's flag of it, an absent entry of the
\* manager counting as not connected
C19_StoreFlagEqualsManagerFlag ==
    \A c \in Chains : storeConn[c] = (isConnected[c] = "true")

\* C21: on every simulation tick the simulated base fee of each network lies within the
\* range the README documents for it (ethereum 15-35, polygon 20-100, arbitrum 0.1-0.5
\* Gwei), bounds included, whatever Math.random() returns
C21_SimulatedBaseFeeInDocumentedRange ==
    simulated.ran =>
        \A c \in SimChains :
            /\ simulated.fees[c].baseFee >= DocumentedBase[c].min * RandomSteps
            /\ simulated.fees[c].baseFee <= DocumentedBase[c].max * RandomSteps

\* the step in which the last connectionPromise of initializeConnections settles
InitializationCompletes ==
    /\ \E c \in Chains : initResult[c] = "pending"
    /\ \A c \in Chains : initResult'[c] # "pending"

\* C22: when initialization ends and no network could be connected (every candidate of
\* every network failed), store.error is the 'No blockchain connections available' notice;
\* when at least one network is connected, store.error is null
C22_NoticeWhenNothingConnected ==
    [][InitializationCompletes =>
          IF \A c \in Chains : isConnected'[c] = "false" /\ loops'[c] = <<>>
          THEN storeError' = NoConnectionsNotice
          ELSE (\E c \in Chains : isConnected'[c] = "true") => storeError' = "null"]_vars

\* loop l of network c has declared its connection lost and has got no block since
HasDeclaredLost(c, l) == l \in 1..Len(loops[c]) /\ ThresholdReached(loops[c][l].errs)

\* C23: a polling loop that has declared its connection lost after 3 consecutive errors
\* has stopped: no poll of it completes any more, so it updates neither the store nor the
\* connection state and schedules no further reconnection
C23_LostLoopStops ==
    [][\A c \in Chains, l \in 1..MaxLoops, r \in {"block", "null", "error"} :
          HasDeclaredLost(c, l) => ~PollAnswered(c, l, r)]_vars

\* C24: in every reachable state a network is marked connected in the service exactly when
\* a provider of it is registered in the providers map
C24_ConnectedIffProviderRegistered ==
    \A c \in Chains : (isConnected[c] = "true") <=> (providers[c] # NoProvider)

\* reconnections of network c that are outstanding: timers pending, connectToChain calls
\* in progress
OutstandingReconnections(c) == PendingTimers(c) + Len(trav[c])

\* polling loops of network c that poll: the initial poll in flight or the interval running
ActiveLoops(c) == {l \in 1..Len(loops[c]) : loops[c][l].interval \in {"none", "active"}}

\* C25: for each network at most one reconnection is outstanding (a pending reconnect timer
\* or a connectToChain call in progress) and at most one polling loop is active
C25_OneReconnectionOneLoop ==
    \A c \in Chains :
        /\ OutstandingReconnections(c) <= 1
        /\ Cardinality(ActiveLoops(c)) <= 1

\* C26: initializeConnections always completes: store.isLoading, true from the start, is
\* eventually false, also when no endpoint of any network ever answers
C26_LoadingEventuallyEnds == <>(isLoading = FALSE)

\* C26 witness: initialization is over and no network was ever connected
C26_Witness ==
    /\ isLoading = FALSE
    /\ \A c \in Chains : isConnected[c] = "false" /\ loops[c] = <<>>

\* C27: getWeb3Service creates the service on its first call and returns that instance on
\* every later call, those after disconnect() included: the constructor, which starts the
\* connection initialization and the simulation and price timers, has run exactly once
\* once getWeb3Service was called
C27_ServiceCreatedOnce ==
    /\ web3Service.constructed <= 1
    /\ web3Service.calls >= 1 => web3Service.set /\ web3Service.constructed = 1
    /\ web3Service.calls = 0 => ~web3Service.set /\ web3Service.constructed = 0

\* C27 witness: getWeb3Service was called again after disconnect()
C27_Witness ==
    tornDown /\ web3Service.late /\ web3Service.calls >= 2 /\ web3Service.constructed = 1

\* the points of a history lie in different 15-minute intervals
OnePointPerInterval(h) ==
    \A i, j \in 1..Len(h) : i < j => IntervalOf(h[i].time) # IntervalOf(h[j].time)

\* low <= open <= high and low <= close <= high
WellFormedPoint(pt) ==
    /\ pt.low <= pt.open /\ pt.open <= pt.high
    /\ pt.low <= pt.close /\ pt.close <= pt.high

\* an update of network c in the interval of its last point changes that point, and only it
UpdatesLastPoint(c, gas) ==
    LET h == history.points[c]
        n == Len(h)
    IN  (n > 0 /\ IntervalOf(h[n].time) = IntervalOf(now)) =>
            /\ Len(history'.points[c]) = n
            /\ \A i \in 1..(n - 1) : history'.points[c][i] = h[i]
            /\ history'.points[c][n].close = gas
            /\ history'.points[c][n].high = Max(h[n].high, gas)
            /\ history'.points[c][n].low = Min(h[n].low, gas)

\* C29: under updateGas calls with non-decreasing timestamps a history has at most one
\* point per 15-minute interval, an update in the interval of the last point modifies that
\* point (close = new value, high = max, low = min) instead of appending, and every point
\* has low <= open <= high and low <= close <= high
C29_OnePointPerIntervalWellFormed ==
    /\ [](\A c \in Chains :
            /\ OnePointPerInterval(history.points[c])
            /\ \A i \in 1..Len(history.points[c]) : WellFormedPoint(history.points[c][i]))
    /\ [][\A c \in Chains, b \in FeeInputs :
             UpdateGasCalled(c, b, Num(0)) => UpdatesLastPoint(c, safeCurrentGas(b, Num(0)))]_vars

\* h2 is h without some of its oldest points, with its last point changed or one point more
KeepsNewest(h, h2) ==
    \E d \in 0..(MaxExtra + 1) :
        /\ Len(h2) \in {Len(h) - d, Len(h) - d + 1}
        /\ \A i \in 1..(Len(h2) - 1) : i + d <= Len(h) /\ h2[i] = h[i + d]

\* C28: after any sequence of updateGas and addHistoryPoint calls the history of every
\* network holds at most 100 points, and a point that is dropped is the oldest one
C28_HistoryAtMostHundredPoints ==
    /\ [](\A c \in Chains : Len(history.points[c]) <= HistoryLimit)
    /\ [][\A c \in Chains : KeepsNewest(history.points[c], history'.points[c])]_vars

\* the amount the field holds is a positive number
AmountIsPositive == simulationInput.k = "decimal" /\ simulationInput.v > 0

\* the networks whose stored baseFee is greater than 0
NetworksWithBaseFee == {c \in Chains : gasFees[c].baseFee.k = "finite" /\ gasFees[c].baseFee.v > 0}

====
